---- MODULE Spec2Model ----
(***************************************************************************)
(* Section-generation orchestrator of the research assistant backend       *)
(* (services/generationService.js), its HTTP trigger and progress stream   *)
(* (routes/projects.js) and the client-side trigger helper                 *)
(* (services/projects.js, startGeneration).                                *)
(*                                                                         *)
(* One generation run of one project ("P1") is modelled.  JavaScript runs  *)
(* the code between two awaits atomically, so every action below is one    *)
(* such stretch: it starts when an awaited promise settles (a store        *)
(* operation returns or throws, the model call settles, the timer fires)   *)
(* and runs to the next await.                                             *)
(***************************************************************************)
EXTENDS Integers, Sequences, FiniteSets, TLC

\* ---- bounds of the model ------------------------------------------------
MaxSections == 4      \* longest section_mapping explored
MaxStreams  == 1      \* progress streams that may be attached
MaxFaults   == 1      \* store operations that may throw in one behaviour
MaxDocs     == 3      \* most source documents of a project
MaxRefs     == 2      \* most references of one source document
MaxClients  == 2      \* progress streams followed one by one
MaxEmits    == 3      \* emit calls seen by those streams

\* ---- program constants --------------------------------------------------
CONCURRENCY == 3
MinSourceChars == 50        \* least length of usable source text
MaxContextChars == 100000   \* ceiling given to truncateForContext

TimeoutMessage == "Generation timed out"
ModelErrorMessage == "ModelError"
StoreErrorMessage == "StoreError"
UnhandledErrorMessage == "Unhandled error"

StreamIds == 1..MaxClients
Projects == {"P1", "P2"}
EventKinds == {"progress", "section-complete", "error", "complete"}

\* a stream nobody has asked for yet
NoStream == [res |-> "none", project |-> "", listeners |-> {}, timer |-> FALSE,
             written |-> <<>>]

\* a stream of project p right after its request was served: the initial
\* 'status' message is written, the four listeners and the timer are set
OpenedStream(p) ==
  [res |-> "open", project |-> p, listeners |-> EventKinds, timer |-> TRUE,
   written |-> <<[kind |-> "status", projectId |-> p, n |-> 0, to |-> {}]>>]

VARIABLES
  project,              \* the project: has a template, has at least one source
                        \* document, length of section_mapping
  status,               \* persisted Project.status
  generation_progress,  \* persisted progress counters
  draftCreated,         \* createDraft has returned a draft
  draft,                \* persisted DraftSection content per templateSectionId ("" = no entry)
  references,           \* updateDraftReferences has run
  results,              \* the run's results object: the entries pushed to
                        \* results.sections and results.errors, kept per section
                        \* (the code reads only their number and content)
  events,               \* every generationEvents.emit call, kept per section in
                        \* emission order (index 0: the events of the run itself)
  streams,              \* number of progress streams attached to generationEvents
  runPc,                \* position of generateProjectContent
  i,                    \* loop variable of the batch loop (1-based)
  sec,                  \* per section: position and locals of processSection
  statusLog,            \* statuses written by the orchestrator, in order
  faults,               \* store operations that threw
  response,             \* answer of POST /:id/generate
  clientPc,             \* position of the client that triggers the run
  runError,             \* message of the exception caught by the top-level catch
  detached,             \* what became of the promise of the detached run
  sse,                  \* progress streams followed one by one: project,
                        \* attached listeners, ping timer, response, what
                        \* was written to the client
  emitted,              \* the emit calls seen by the streams followed one
                        \* by one, in order
  other,                \* a second run: its project, position and locals
  wizard,               \* the project-creation wizard: step, form data,
                        \* error shown, project data submitted
  gen                   \* one call of a helper of the service (a section
                        \* generator, the reference collector): its
                        \* arguments, position and locals

vars == <<project, status, generation_progress, draftCreated,
          draft, references, results, events, streams, runPc, i, sec,
          statusLog, faults, response, clientPc, runError, detached, sse,
          emitted, other, wizard, gen>>

Sections == 1..MaxSections
L == project.section_mapping

\* values of Project.generation_progress: null, the number 0 written by the
\* client, the counters written by the orchestrator, the error of a rollback
NullProgress ==
  [kind |-> "null", totalSections |-> 0, completedSections |-> 0, error |-> ""]
ZeroProgress ==
  [kind |-> "zero", totalSections |-> 0, completedSections |-> 0, error |-> ""]
\* variant: the two counters are written to each other's field
ProgressSwapped(total, completed) ==
  [kind |-> "counters", totalSections |-> completed, completedSections |-> total,
   error |-> ""]

\* the counters written by the orchestrator
Progress(total, completed) ==
  [kind |-> "counters", totalSections |-> total, completedSections |-> completed,
   error |-> ""]
FailedProgress(msg) ==
  [kind |-> "failed", totalSections |-> 0, completedSections |-> 0, error |-> msg]

IdleSection == [pc |-> "idle", call |-> "none", result |-> "none",
                error |-> "", rethrow |-> "", completedArg |-> 0]

\* ---- pure helpers -------------------------------------------------------

\* section_mapping.slice(i, i + CONCURRENCY), 1-based
Batch(start) == {s \in 1..L : start <= s /\ s < start + CONCURRENCY}

\* content of the placeholder written by the catch block of processSection
Placeholder(msg) == "[Generation failed: " \o msg \o ". Please edit manually.]"

\* content of a sectionResult
ContentOf(result) ==
  CASE result = "ok" -> "generated"
    [] result = "insufficient" -> "[Insufficient source content for this section]"
    [] result = "parseFail" -> "[Content could not be parsed]"
    [] OTHER -> ""

SuccessOf(result) == result = "ok"

\* readiness check of the project store
checkGenerationReadiness ==
  project.template /\ project.documents /\ project.section_mapping >= 1

\* EventEmitter: emit('error') throws when no 'error' listener is registered
HasErrorListener ==
  streams > 0 \/ \E c \in StreamIds : "error" \in sse[c].listeners

Event(kind, section, completed, error, recoverable, success) ==
  [kind |-> kind, projectId |-> "P1", section |-> section,
   completedSections |-> completed, error |-> error,
   recoverable |-> recoverable, success |-> success]

CanFault == Cardinality(faults) < MaxFaults

RECURSIVE SumLen(_, _)
SumLen(f, n) == IF n = 0 THEN 0 ELSE Len(f[n]) + SumLen(f, n - 1)

\* variant: the length counts the sections that raised an exception too
SectionsAndErrorsLength ==
  SumLen(results.sections, MaxSections) + SumLen(results.errors, MaxSections)

\* results.sections.length
SectionsLength == SumLen(results.sections, MaxSections)
\* results.errors.length
ErrorsLength == SumLen(results.errors, MaxSections)

\* variant: 'section-complete' is emitted for successful sections only
EmitSuccessOnly(log, e) ==
  IF e.kind = "section-complete" /\ ~e.success
    THEN log
    ELSE [log EXCEPT ![e.section] = Append(@, e)]

\* generationEvents.emit(...), recorded under the section it is about
Emit(log, e) == [log EXCEPT ![e.section] = Append(@, e)]

\* no section generator is being followed
IdleGen == [pc |-> "idle"]

\* no second run has been triggered
IdleRun == [pc |-> "idle", project |-> "", status |-> "draft", draft |-> "",
            sections |-> 0, errors |-> <<>>, rethrow |-> ""]

\* no project data has been sent
NoProjectData == [name |-> "", mode |-> "", purpose |-> "", templateId |-> "",
                  sourceDocumentIds |-> <<>>, sectionMapping |-> <<>>]

\* ProjectNew when it is mounted: the useState defaults
NewWizard ==
  [currentStep |-> 1, mode |-> "", purpose |-> "", selectedDocuments |-> <<>>,
   selectedTemplate |-> "", projectName |-> "", sectionMapping |-> <<>>,
   error |-> "", page |-> "wizard", submitted |-> NoProjectData]

\* ---- initial state ------------------------------------------------------
\* nothing has been triggered yet
RunStart ==
  /\ status = "draft"
  /\ generation_progress = NullProgress
  /\ draftCreated = FALSE
  /\ draft = [s \in Sections |-> ""]
  /\ references = FALSE
  /\ results = [sections |-> [s \in Sections |-> <<>>],
                errors |-> [s \in Sections |-> <<>>]]
  /\ events = [s \in 0..MaxSections |-> <<>>]
  /\ streams = 0
  /\ runPc = "idle"
  /\ i = 1
  /\ sec = [s \in Sections |-> IdleSection]
  /\ statusLog = <<>>
  /\ faults = {}
  /\ response = "none"
  /\ clientPc = "idle"
  /\ runError = ""
  /\ detached = "pending"
  /\ emitted = <<>>
  /\ other = IdleRun
  /\ wizard = NewWizard

\* and nobody is listening
RunInit ==
  /\ RunStart
  /\ sse = [c \in StreamIds |-> NoStream]

Init ==
  /\ project \in [template : BOOLEAN, documents : BOOLEAN,
                  section_mapping : 0..MaxSections]
  /\ gen = IdleGen
  /\ RunInit

storeVars == <<status, generation_progress, statusLog>>
draftVars == <<draftCreated, draft, references>>
clientVars == <<response, clientPc>>

Fault(op, s) == [op |-> op, section |-> s]

\* ---- trigger ------------------------------------------------------------

\* startGeneration, first store update: status 'generating' before the POST
StartGenerationUpdate(ok) ==
  /\ clientPc = "idle"
  /\ IF ok
       THEN /\ status' = "generating"
            /\ generation_progress' = ZeroProgress
            /\ clientPc' = "posting"
       ELSE /\ clientPc' = "finished"
            /\ UNCHANGED <<status, generation_progress>>
  /\ UNCHANGED <<project, gen, wizard, sse, emitted, other, detached, draftVars, results, events, streams, runPc, i, sec,
                 statusLog, faults, response, runError>>

\* POST /:id/generate: readiness check, then the detached call of
\* generateProjectContent, which runs up to its first await
PostGenerate ==
  /\ clientPc \in {"idle", "posting"}
  /\ response = "none"
  /\ IF checkGenerationReadiness
       THEN /\ response' = "generating"
            /\ runPc' = "statusInit"
            /\ clientPc' = "finished"
       ELSE /\ response' = "badRequest"
            /\ runPc' = runPc
            /\ clientPc' = IF clientPc = "idle" THEN "finished" ELSE clientPc
  /\ UNCHANGED <<project, gen, wizard, sse, emitted, other, detached, storeVars, draftVars, results, events, streams, i,
                 sec, faults, runError>>

\* startGeneration, catch: the POST was refused, status is set to 'configured'
StartGenerationRevert ==
  /\ clientPc = "posting"
  /\ response = "badRequest"
  /\ status' = "configured"
  /\ clientPc' = "finished"
  /\ UNCHANGED <<project, gen, wizard, sse, emitted, other, detached, generation_progress, draftVars, results, events,
                 streams, runPc, i, sec, statusLog, faults, response, runError>>

\* ---- processSection -----------------------------------------------------

\* batch.map(processSection): every section of the batch runs to its first
\* await: 'progress' is emitted, then either the model call is started and
\* raced against the timer, or the source text is too short and the section
\* goes on to write its result
StartSections(start, short) ==
  /\ events' = [s \in 0..MaxSections |->
       IF s \in Batch(start)
         THEN Append(events[s], Event("progress", s, SectionsLength, "", FALSE, FALSE))
         ELSE events[s]]
  /\ sec' = [s \in Sections |->
       IF s \in Batch(start)
         THEN IF s \in short
                THEN [IdleSection EXCEPT !.pc = "writing", !.result = "insufficient"]
                ELSE [IdleSection EXCEPT !.pc = "racing", !.call = "inflight"]
         ELSE sec[s]]

\* variant: the catch block also records the section among the results
CatchSectionCountsSection(s, msg, call) ==
  /\ results' = [results EXCEPT !.errors[s] = Append(@, msg),
                                !.sections[s] = Append(@, FALSE)]
  /\ events' = Emit(events, Event("error", s, 0, msg, TRUE, FALSE))
  /\ sec' = [sec EXCEPT ![s] =
       IF HasErrorListener
         THEN [@ EXCEPT !.pc = "placeholder", !.call = call, !.error = msg]
         ELSE [@ EXCEPT !.pc = "finally", !.call = call, !.error = msg,
                        !.rethrow = UnhandledErrorMessage,
                        !.completedArg = SectionsLength]]

\* catch block of processSection up to its await
CatchSection(s, msg, call) ==
  /\ results' = [results EXCEPT !.errors[s] = Append(@, msg)]
  /\ events' = Emit(events, Event("error", s, 0, msg, TRUE, FALSE))
  /\ sec' = [sec EXCEPT ![s] =
       IF HasErrorListener
         THEN [@ EXCEPT !.pc = "placeholder", !.call = call, !.error = msg]
         ELSE [@ EXCEPT !.pc = "finally", !.call = call, !.error = msg,
                        !.rethrow = UnhandledErrorMessage,
                        !.completedArg = SectionsLength]]

\* the model call settles before the timer
GenSettle(s, r) ==
  /\ sec[s].pc = "racing"
  /\ sec[s].call = "inflight"
  /\ IF r = "modelError"
       THEN CatchSection(s, ModelErrorMessage, "settled")
       ELSE /\ sec' = [sec EXCEPT ![s] = [@ EXCEPT !.pc = "writing",
                                            !.call = "settled", !.result = r]]
            /\ UNCHANGED <<results, events>>
  /\ UNCHANGED <<project, gen, wizard, sse, emitted, other, detached, storeVars, draftVars, streams, runPc, i, faults,
                 clientVars, runError>>

\* variant: the timer promise resolves instead of rejecting, so the section
\* goes on to the draft write of the success path
TimeoutResolves(s) ==
  /\ sec[s].pc = "racing"
  /\ sec' = [sec EXCEPT ![s] = [@ EXCEPT !.pc = "writing", !.result = "ok"]]
  /\ UNCHANGED <<project, gen, wizard, sse, emitted, other, detached, storeVars, draftVars, results, events, streams,
                 runPc, i, faults, clientVars, runError>>

\* the timer fires before the model call settles; the call is not cancelled
Timeout(s) ==
  /\ sec[s].pc = "racing"
  /\ CatchSection(s, TimeoutMessage, sec[s].call)
  /\ UNCHANGED <<project, gen, wizard, sse, emitted, other, detached, storeVars, draftVars, streams, runPc, i, faults,
                 clientVars, runError>>

\* variant: the result of the abandoned call is written to the draft
AbandonedSettleWrites(s) ==
  /\ sec[s].call = "inflight"
  /\ sec[s].pc # "racing"
  /\ sec' = [sec EXCEPT ![s] = [@ EXCEPT !.call = "settled"]]
  /\ draft' = [draft EXCEPT ![s] = ContentOf("ok")]
  /\ UNCHANGED <<project, gen, wizard, sse, emitted, other, detached, storeVars, draftCreated, references, results, events,
                 streams, runPc, i, faults, clientVars, runError>>

\* a model call abandoned by the timeout settles later
AbandonedSettle(s) ==
  /\ sec[s].call = "inflight"
  /\ sec[s].pc # "racing"
  /\ sec' = [sec EXCEPT ![s] = [@ EXCEPT !.call = "settled"]]
  /\ UNCHANGED <<project, gen, wizard, sse, emitted, other, detached, storeVars, draftVars, results, events, streams,
                 runPc, i, faults, clientVars, runError>>

\* variant: after the draft write of the success path the section falls
\* into its catch block, which writes the placeholder over the result
WriteDoneThenCatch(s, ok) ==
  /\ sec[s].pc = "writing"
  /\ IF ok
       THEN /\ draft' = [draft EXCEPT ![s] = ContentOf(sec[s].result)]
            /\ CatchSection(s, StoreErrorMessage, sec[s].call)
            /\ UNCHANGED faults
       ELSE /\ CanFault
            /\ faults' = faults \cup {Fault("updateDraftSection", s)}
            /\ CatchSection(s, StoreErrorMessage, sec[s].call)
            /\ UNCHANGED draft
  /\ UNCHANGED <<project, gen, wizard, sse, emitted, other, detached, storeVars, draftCreated, references, streams, runPc,
                 i, clientVars, runError>>

\* updateDraftSection of the success path returns or throws
WriteDone(s, ok) ==
  /\ sec[s].pc = "writing"
  /\ IF ok
       THEN /\ draft' = [draft EXCEPT ![s] = ContentOf(sec[s].result)]
            /\ results' = [results EXCEPT !.sections[s] =
                 Append(@, SuccessOf(sec[s].result))]
            /\ events' = Emit(events,
                 Event("section-complete", s, 0, "", FALSE, SuccessOf(sec[s].result)))
            /\ sec' = [sec EXCEPT ![s] = [@ EXCEPT !.pc = "finally",
                 !.completedArg = SectionsLength + 1]]
            /\ UNCHANGED faults
       ELSE /\ CanFault
            /\ faults' = faults \cup {Fault("updateDraftSection", s)}
            /\ CatchSection(s, StoreErrorMessage, sec[s].call)
            /\ UNCHANGED draft
  /\ UNCHANGED <<project, gen, wizard, sse, emitted, other, detached, storeVars, draftCreated, references, streams, runPc,
                 i, clientVars, runError>>

\* updateDraftSection of the catch block returns or throws
PlaceholderDone(s, ok) ==
  /\ sec[s].pc = "placeholder"
  /\ IF ok
       THEN /\ draft' = [draft EXCEPT ![s] = Placeholder(sec[s].error)]
            /\ sec' = [sec EXCEPT ![s] = [@ EXCEPT !.pc = "finally",
                 !.completedArg = SectionsLength]]
            /\ UNCHANGED faults
       ELSE /\ CanFault
            /\ faults' = faults \cup {Fault("placeholder", s)}
            /\ sec' = [sec EXCEPT ![s] = [@ EXCEPT !.pc = "finally",
                 !.rethrow = StoreErrorMessage,
                 !.completedArg = SectionsLength]]
            /\ UNCHANGED draft
  /\ UNCHANGED <<project, gen, wizard, sse, emitted, other, detached, storeVars, draftCreated, references, results, events,
                 streams, runPc, i, clientVars, runError>>

\* updateProjectStatus of the finally block returns or throws; processSection
\* settles, and a rejection rejects Promise.all at once
FinallyDone(s, ok) ==
  /\ sec[s].pc = "finally"
  /\ IF ok
       THEN /\ status' = "generating"
            /\ generation_progress' = Progress(L, sec[s].completedArg)
            /\ statusLog' = Append(statusLog, "generating")
            /\ UNCHANGED faults
       ELSE /\ CanFault
            /\ faults' = faults \cup {Fault("finally", s)}
            /\ UNCHANGED <<status, generation_progress, statusLog>>
  /\ LET rejected == sec[s].rethrow # "" \/ ~ok
         msg == IF ok THEN sec[s].rethrow ELSE StoreErrorMessage
     IN /\ sec' = [sec EXCEPT ![s] = [IdleSection EXCEPT
                     !.pc = IF rejected THEN "rejected" ELSE "done",
                     !.call = sec[s].call]]
        /\ IF rejected /\ runPc = "batch"
             THEN runPc' = "rollback" /\ runError' = msg
             ELSE UNCHANGED <<runPc, runError>>
  /\ UNCHANGED <<project, gen, wizard, sse, emitted, other, detached, draftVars, results, events, streams,
                 i, clientVars>>

\* variant: the trigger calls generateProjectContent without a catch handler,
\* so a rejection is an unhandled rejection of the host process
NoCatchDetached(rejected) == IF rejected THEN "unhandled" ELSE detached

\* generateProjectContent(...).catch(error => console.error(...)) of the
\* trigger: a rejection of the detached promise is logged and dropped
CatchDetached(rejected) == IF rejected THEN "logged" ELSE detached

\* ---- generateProjectContent ---------------------------------------------

\* the first updateProjectStatus('generating') returns or throws; it is
\* outside the try block, so its exception goes straight to the caller
StatusInitDone(ok) ==
  /\ runPc = "statusInit"
  /\ IF ok
       THEN /\ status' = "generating"
            /\ generation_progress' = Progress(L, 0)
            /\ statusLog' = Append(statusLog, "generating")
            /\ runPc' = "createDraft"
            /\ UNCHANGED <<faults, runError>>
       ELSE /\ CanFault
            /\ faults' = faults \cup {Fault("statusInit", 0)}
            /\ runPc' = "thrown"
            /\ runError' = StoreErrorMessage
            /\ UNCHANGED <<status, generation_progress, statusLog>>
  /\ detached' = CatchDetached(~ok)
  /\ UNCHANGED <<project, gen, wizard, sse, emitted, other, draftVars, results, events, streams,
                 i, sec, clientVars>>

\* createDraft returns or throws (still outside the try block); on success
\* the loop is entered and the first batch started
CreateDraftDone(ok) ==
  /\ runPc = "createDraft"
  /\ IF ok
       THEN /\ draftCreated' = TRUE
            /\ runPc' = "batch"
            /\ i' = 1
            /\ \E short \in SUBSET Batch(1) : StartSections(1, short)
            /\ UNCHANGED <<faults, runError>>
       ELSE /\ CanFault
            /\ faults' = faults \cup {Fault("createDraft", 0)}
            /\ runPc' = "thrown"
            /\ runError' = StoreErrorMessage
            /\ UNCHANGED <<draftCreated, i, sec, events>>
  /\ detached' = CatchDetached(~ok)
  /\ UNCHANGED <<project, gen, wizard, sse, emitted, other, storeVars, draft, references, results, streams,
                 clientVars>>

\* variant: the loop goes on as soon as one processSection has resolved
BatchCompleteAny(start) == \E s \in Batch(start) : sec[s].pc = "done"

\* every processSection of the batch has resolved
BatchComplete(start) == \A s \in Batch(start) : sec[s].pc = "done"

\* Promise.all of the batch resolves: next batch, or collectReferences and
\* updateDraftReferences after the last one.  The continuation is a microtask
\* of the last FinallyDone; only steps of the environment (streams, abandoned
\* calls), which it does not read, can lie between the two in the model.
BatchDone ==
  /\ runPc = "batch"
  /\ BatchComplete(i)
  /\ i' = i + CONCURRENCY
  /\ IF i + CONCURRENCY <= L
       THEN /\ \E short \in SUBSET Batch(i + CONCURRENCY) :
                 StartSections(i + CONCURRENCY, short)
            /\ runPc' = runPc
       ELSE /\ runPc' = "references"
            /\ UNCHANGED <<sec, events>>
  /\ UNCHANGED <<project, gen, wizard, sse, emitted, other, detached, storeVars, draftVars, results, streams, faults,
                 clientVars, runError>>

\* updateDraftReferences returns: the update has been applied, or the store
\* has answered with an error, which the helper does not look at; either
\* way updateProjectStatus('ready') is issued
ReferencesDone(ok) ==
  /\ runPc = "references"
  /\ IF ok
       THEN /\ references' = TRUE
            /\ UNCHANGED faults
       ELSE /\ CanFault
            /\ faults' = faults \cup {Fault("updateDraftReferences", 0)}
            /\ UNCHANGED references
  /\ runPc' = "ready"
  /\ UNCHANGED <<project, gen, wizard, sse, emitted, other, detached, storeVars, draftCreated, draft, results, events,
                 streams, i, sec, clientVars, runError>>

\* onComplete of every attached stream of the project: cleanup and res.end
AfterComplete == 0

\* draft.id of the draft of the run
DraftId == IF draftCreated THEN "D1" ELSE "none"

\* variant: the 'complete' event counts every section of the mapping
CompleteEventAllSections ==
  [kind |-> "complete", projectId |-> "P1", section |-> 0, draftId |-> DraftId,
   status |-> "ready", sectionsGenerated |-> L, errors |-> results.errors]

\* payload of the 'complete' event
CompleteEvent ==
  [kind |-> "complete", projectId |-> "P1", section |-> 0, draftId |-> DraftId,
   status |-> "ready", sectionsGenerated |-> SectionsLength,
   errors |-> results.errors]

\* updateProjectStatus('ready') returns or throws
ReadyDone(ok) ==
  /\ runPc = "ready"
  /\ IF ok
       THEN /\ status' = "ready"
            /\ generation_progress' = Progress(L, L)
            /\ statusLog' = Append(statusLog, "ready")
            /\ events' = Emit(events, CompleteEvent)
            /\ streams' = AfterComplete
            /\ runPc' = "returned"
            /\ UNCHANGED <<faults, runError>>
       ELSE /\ CanFault
            /\ faults' = faults \cup {Fault("ready", 0)}
            /\ runPc' = "rollback"
            /\ runError' = StoreErrorMessage
            /\ UNCHANGED <<status, generation_progress, statusLog, events, streams>>
  /\ UNCHANGED <<project, gen, wizard, sse, emitted, other, detached, draftVars, results, i, sec, clientVars>>

\* top-level catch: updateProjectStatus('draft') returns or throws, then the
\* 'error' event and the rethrow
RollbackDone(ok) ==
  /\ runPc = "rollback"
  /\ IF ok
       THEN /\ status' = "draft"
            /\ generation_progress' = FailedProgress(runError)
            /\ statusLog' = Append(statusLog, "draft")
            /\ events' = Emit(events, Event("error", 0, 0, runError, FALSE, FALSE))
            /\ UNCHANGED faults
       ELSE /\ CanFault
            /\ faults' = faults \cup {Fault("rollback", 0)}
            /\ UNCHANGED <<status, generation_progress, statusLog, events>>
  /\ runPc' = "thrown"
  /\ detached' = CatchDetached(TRUE)
  /\ UNCHANGED <<project, gen, wizard, sse, emitted, other, draftVars, results, streams, i, sec, clientVars,
                 runError>>

\* ---- progress streams ---------------------------------------------------

\* GET /:id/generation-status subscribes its four listeners
OpenStream ==
  /\ streams < MaxStreams
  /\ streams' = streams + 1
  /\ UNCHANGED <<project, gen, wizard, sse, emitted, other, detached, storeVars, draftVars, results, events, runPc, i,
                 sec, faults, clientVars, runError>>

\* client disconnect: cleanup detaches the four listeners
CloseStream ==
  /\ streams > 0
  /\ streams' = streams - 1
  /\ UNCHANGED <<project, gen, wizard, sse, emitted, other, detached, storeVars, draftVars, results, events, runPc, i,
                 sec, faults, clientVars, runError>>

\* ---- specification ------------------------------------------------------
Next ==
  \/ \E ok \in BOOLEAN : StartGenerationUpdate(ok)
  \/ PostGenerate
  \/ StartGenerationRevert
  \/ \E ok \in BOOLEAN : StatusInitDone(ok)
  \/ \E ok \in BOOLEAN : CreateDraftDone(ok)
  \/ \E s \in Sections, r \in {"ok", "parseFail", "modelError"} : GenSettle(s, r)
  \/ \E s \in Sections : Timeout(s)
  \/ \E s \in Sections : AbandonedSettle(s)
  \/ \E s \in Sections, ok \in BOOLEAN : WriteDone(s, ok)
  \/ \E s \in Sections, ok \in BOOLEAN : PlaceholderDone(s, ok)
  \/ \E s \in Sections, ok \in BOOLEAN : FinallyDone(s, ok)
  \/ BatchDone
  \/ \E ok \in BOOLEAN : ReferencesDone(ok)
  \/ \E ok \in BOOLEAN : ReadyDone(ok)
  \/ \E ok \in BOOLEAN : RollbackDone(ok)
  \/ OpenStream
  \/ CloseStream

Spec == Init /\ [][Next]_vars

TypeOK ==
  /\ status \in {"draft", "generating", "ready", "configured"}
  /\ runPc \in {"idle", "statusInit", "createDraft", "batch", "references",
                "ready", "rollback", "returned", "thrown"}
  /\ \A s \in Sections : sec[s].pc \in {"idle", "racing", "writing",
        "placeholder", "finally", "done", "rejected"}
  /\ detached \in {"pending", "logged", "unhandled"}

\* ---- section generators ---------------------------------------------------
\* A text is kept by what the generators look at: the pieces it was made of,
\* its length, and the white space at its two ends (removed by trim()).
Text(parts, len, lead, trail) ==
  [parts |-> parts, len |-> len, lead |-> lead, trail |-> trail]

\* the empty string
EmptyText == Text(<<>>, 0, 0, 0)

\* text.trim().length
TrimLen(t) == t.len - t.lead - t.trail

\* id of the k-th document of the project
DocId(k) == "d" \o ToString(k)

RECURSIVE SumOfLen(_)
SumOfLen(ts) == IF ts = <<>> THEN 0 ELSE Head(ts).len + SumOfLen(Tail(ts))

RECURSIVE PartsOf(_)
PartsOf(ts) == IF ts = <<>> THEN <<>> ELSE Head(ts).parts \o PartsOf(Tail(ts))

\* contents.join('\n\n') of a non-empty list of non-empty texts
Join(ts) ==
  Text(PartsOf(ts), SumOfLen(ts) + 2 * (Len(ts) - 1),
       ts[1].lead, ts[Len(ts)].trail)

\* variant: every requested section the document has is taken, with or
\* without text
extractSourceContentOfKeysPresent(document, sectionKeys) ==
  LET sections == document.extracted_content.sections
      found == SelectSeq(sectionKeys, LAMBDA key : key \in DOMAIN sections)
      contents == [k \in 1..Len(found) |-> sections[found[k]]]
  IN IF Len(sectionKeys) = 0 \/ Len(contents) = 0
       THEN document.extracted_content.fullText
       ELSE Join(contents)

\* extractSourceContent(document, sectionKeys): the text of the requested
\* sections that have one, joined; the full text when no key is requested
\* or none matches
extractSourceContent(document, sectionKeys) ==
  LET sections == document.extracted_content.sections
      found == SelectSeq(sectionKeys,
                 LAMBDA key : key \in DOMAIN sections /\ sections[key].len > 0)
      contents == [k \in 1..Len(found) |-> sections[found[k]]]
  IN IF Len(sectionKeys) = 0 \/ Len(contents) = 0
       THEN document.extracted_content.fullText
       ELSE Join(contents)

\* truncateForContext(text, maxChars): the head of the text
truncateForContext(text, maxChars) ==
  [text |-> IF text.len > maxChars
              THEN [text EXCEPT !.len = maxChars, !.trail = 0]
              ELSE text,
   truncated |-> text.len > maxChars]

\* parseSectionContent / parseMultiDocResponse on a usable ("ok") or an
\* empty or malformed ("parseFail") response of the model
parseResponse(r) ==
  IF r = "ok"
    THEN [success |-> TRUE, content |-> "generated", warnings |-> <<>>]
    ELSE [success |-> FALSE, content |-> "[Content could not be parsed]",
          warnings |-> <<"Response could not be parsed">>]

NoPrompt == [builder |-> "none", documents |-> <<>>]
NoResult == [success |-> FALSE, content |-> "", warnings |-> <<>>,
             sourceRefs |-> <<>>]

\* generateSingleDocSection up to its return or its call of the model
SingleDocStart(g) ==
  LET document == g.documents[1]
      sourceContent ==
        extractSourceContent(document, g.sourceMapping.sourceSections)
      cut == truncateForContext(sourceContent, MaxContextChars)
  IN IF sourceContent.len = 0 \/ TrimLen(sourceContent) < MinSourceChars
       THEN [g EXCEPT !.pc = "returned", !.sourceContents = <<sourceContent>>,
              !.result = [success |-> FALSE,
                content |-> "[Insufficient source content for this section]",
                warnings |-> <<"No relevant content found in source document">>,
                sourceRefs |-> <<>>]]
       ELSE [g EXCEPT !.pc = "calling", !.sourceContents = <<sourceContent>>,
              !.truncated = cut.truncated,
              !.prompt = [builder |-> "buildSectionRewritePrompt",
                          documents |-> <<[title |-> document.id,
                                           content |-> cut.text]>>],
              !.modelCalls = @ + 1]

\* variant: the sentinel counts only when it is the whole list
docsToUseOnlyAll(documents, sourceDocuments) ==
  IF sourceDocuments = {"all"}
    THEN documents
    ELSE SelectSeq(documents, LAMBDA d : d.id \in sourceDocuments)

\* the documents a multi-document section draws on
docsToUse(documents, sourceDocuments) ==
  IF "all" \in sourceDocuments
    THEN documents
    ELSE SelectSeq(documents, LAMBDA d : d.id \in sourceDocuments)

\* variant: only documents without any text are left out
docContentsNonEmpty(docs, sectionKeys) ==
  SelectSeq([k \in 1..Len(docs) |->
               [title |-> docs[k].id,
                content |-> extractSourceContent(docs[k], sectionKeys)]],
            LAMBDA d : d.content.len > 0)

\* the {title, authors, content} entries handed to the prompt builder
docContents(docs, sectionKeys) ==
  SelectSeq([k \in 1..Len(docs) |->
               [title |-> docs[k].id,
                content |-> extractSourceContent(docs[k], sectionKeys)]],
            LAMBDA d : d.content.len > MinSourceChars)

\* generateMultiDocSection up to its return or its call of the model
MultiDocStart(g) ==
  LET used == docsToUse(g.documents, g.sourceMapping.sourceDocuments)
      entries == docContents(used, g.sourceMapping.sourceSections)
      extracted == [k \in 1..Len(used) |->
                      extractSourceContent(used[k], g.sourceMapping.sourceSections)]
  IN IF Len(entries) = 0
       THEN [g EXCEPT !.pc = "returned", !.docsToUse = used,
              !.sourceContents = extracted,
              !.result = [success |-> FALSE,
                content |-> "[Insufficient source content across documents]",
                warnings |-> <<"No relevant content found in source documents">>,
                sourceRefs |-> <<>>]]
       ELSE [g EXCEPT !.pc = "calling", !.docsToUse = used,
              !.sourceContents = extracted,
              !.prompt = [builder |-> IF g.purpose = "comparative"
                                        THEN "buildComparativeAnalysisPrompt"
                                        ELSE "buildMultiDocumentSynthesisPrompt",
                          documents |-> entries],
              !.modelCalls = @ + 1]

\* everything but gen
runVars == <<project, status, generation_progress, draftCreated,
             draft, references, results, events, streams, runPc, i, sec,
             statusLog, faults, response, clientPc, runError, detached, sse,
             emitted, other, wizard>>

\* mode === 'single': generateSingleDocSection(sectionConfig, documents[0], ...)
GenerateSingleDocSection ==
  /\ gen.pc = "start"
  /\ gen.mode = "single"
  /\ gen' = SingleDocStart(gen)
  /\ UNCHANGED runVars

\* otherwise: generateMultiDocSection(sectionConfig, documents, ...)
GenerateMultiDocSection ==
  /\ gen.pc = "start"
  /\ gen.mode # "single"
  /\ gen' = MultiDocStart(gen)
  /\ UNCHANGED runVars

\* generateContent(prompt) throws
ModelThrows ==
  /\ gen.pc = "calling"
  /\ gen' = [gen EXCEPT !.pc = "threw"]
  /\ UNCHANGED runVars

\* generateContent(prompt) returns; the response is parsed and the result
\* of the section returned
ModelResponds(r) ==
  /\ gen.pc = "calling"
  /\ LET parsed == parseResponse(r)
     IN gen' = [gen EXCEPT !.pc = "returned",
          !.result = [success |-> parsed.success,
            content |-> parsed.content,
            warnings |-> parsed.warnings \o
              (IF gen.truncated
                 THEN <<"Source content was truncated due to length">>
                 ELSE <<>>),
            sourceRefs |-> IF gen.mode = "single"
              THEN <<gen.documents[1].id>>
              ELSE [k \in 1..Len(gen.docsToUse) |-> gen.docsToUse[k].id]]]
  /\ UNCHANGED runVars

\* ---- inputs of the section generators ------------------------------------
Modes == {"single", "multi"}
Purposes == {"summary", "comparative"}

\* extracted_content of the documents explored: section texts and full texts
\* below, at and above the two thresholds, one full text with white space at
\* its ends, one document without any text
DocContents ==
  { [sections |-> [abstract |-> Text(<<"abstract">>, 24, 0, 0)],
     fullText |-> Text(<<"fullText">>, MinSourceChars - 1, 0, 0)],
    [sections |-> [abstract |-> Text(<<"abstract">>, 24, 0, 0),
                   methods |-> Text(<<"methods">>, 24, 0, 0)],
     fullText |-> Text(<<"fullText">>, MinSourceChars, 0, 0)],
    [sections |-> [abstract |-> Text(<<"abstract">>, MinSourceChars + 1, 0, 0),
                   methods |-> EmptyText],
     fullText |-> Text(<<"fullText">>, MinSourceChars + 2, 2, 1)],
    [sections |-> [methods |-> Text(<<"methods">>, MaxContextChars + 1, 0, 0)],
     fullText |-> Text(<<"fullText">>, MaxContextChars + 1, 0, 0)],
    [sections |-> [abstract |-> EmptyText], fullText |-> EmptyText] }

\* sourceMapping.sourceSections explored
SectionKeyLists ==
  {<<>>, <<"abstract">>, <<"abstract", "methods">>, <<"results">>}

\* the project's documents, in project order
DocumentLists ==
  UNION {{[k \in 1..n |-> [id |-> DocId(k), extracted_content |-> c[k]]] :
            c \in [1..n -> DocContents]} : n \in 1..MaxDocs}

\* sourceMapping.sourceDocuments explored: the sentinel, ids of the project,
\* an id of no document
SourceDocumentLists ==
  SUBSET ({"all", "unknown"} \cup {DocId(k) : k \in 1..MaxDocs})

GenInit ==
  /\ project = [template |-> TRUE, documents |-> TRUE, section_mapping |-> 1]
  /\ RunInit
  /\ \E m \in Modes, p \in Purposes, docs \in DocumentLists,
        sd \in SourceDocumentLists, ss \in SectionKeyLists :
       gen = [pc |-> "start", mode |-> m, purpose |-> p, documents |-> docs,
              sourceMapping |-> [sourceDocuments |-> sd, sourceSections |-> ss],
              docsToUse |-> <<>>, sourceContents |-> <<>>,
              prompt |-> NoPrompt, truncated |-> FALSE,
              modelCalls |-> 0, result |-> NoResult]

GenNext ==
  \/ GenerateSingleDocSection
  \/ GenerateMultiDocSection
  \/ ModelThrows
  \/ \E r \in {"ok", "parseFail"} : ModelResponds(r)

GenSpec == GenInit /\ [][GenNext]_vars

\* ---- references -----------------------------------------------------------
\* formatReference(ref): citation string of a reference without raw text
formatReference(ref) ==
  LET authors == IF ref.authors = "" THEN "Unknown" ELSE ref.authors
      year == IF ref.year = "" THEN "n.d." ELSE ref.year
      title == IF ref.title = "" THEN "Untitled" ELSE ref.title
      journal == IF ref.journal = "" THEN "" ELSE ". " \o ref.journal
  IN authors \o " (" \o year \o "). " \o title \o journal \o "."

\* the references of the documents, document after document
RECURSIVE FlatRefs(_)
FlatRefs(documents) ==
  IF documents = <<>> THEN <<>>
  ELSE [k \in 1..Len(Head(documents).references) |->
          [doc |-> Head(documents).id, ref |-> Head(documents).references[k]]]
       \o FlatRefs(Tail(documents))

\* collectReferences(documents): one entry per reference of every document,
\* numbered from 1 in the order met
collectReferences(documents) ==
  LET flat == FlatRefs(documents)
  IN [k \in 1..Len(flat) |->
        [id |-> "ref_" \o ToString(k),
         index |-> k,
         sourceDocumentId |-> flat[k].doc,
         sourceRefId |-> flat[k].ref.id,
         authors |-> flat[k].ref.authors,
         title |-> flat[k].ref.title,
         year |-> flat[k].ref.year,
         journal |-> flat[k].ref.journal,
         doi |-> flat[k].ref.doi,
         formatted |-> IF flat[k].ref.rawText # ""
                         THEN flat[k].ref.rawText
                         ELSE formatReference(flat[k].ref)]]

\* const allReferences = collectReferences(documents)
CollectReferences ==
  /\ gen.pc = "collect"
  /\ gen' = [gen EXCEPT !.pc = "collected",
                        !.allReferences = collectReferences(gen.documents)]
  /\ UNCHANGED runVars

\* updateDraftReferences(draft.id, allReferences): the update is applied, or
\* the store answers with an error that is dropped
UpdateDraftReferences(ok) ==
  /\ gen.pc = "collected"
  /\ gen' = [gen EXCEPT !.pc = "updated",
                        !.persisted = IF ok THEN <<gen.allReferences>> ELSE <<>>]
  /\ UNCHANGED runVars

\* references explored: two works, one cited with raw text and twice under
\* different ids, one with fields only
RefPool ==
  { [id |-> "r1", authors |-> "Ada", title |-> "On engines", year |-> "1843",
     journal |-> "", doi |-> "10.1/a", rawText |-> "Ada (1843). On engines."],
    [id |-> "r7", authors |-> "Ada", title |-> "On engines", year |-> "1843",
     journal |-> "", doi |-> "10.1/a", rawText |-> "Ada (1843). On engines."],
    [id |-> "r2", authors |-> "", title |-> "Notes", year |-> "",
     journal |-> "J", doi |-> "", rawText |-> ""] }

RefLists == UNION {[1..n -> RefPool] : n \in 0..MaxRefs}

\* the project's documents with their references
RefDocumentLists ==
  UNION {{[k \in 1..n |-> [id |-> DocId(k), references |-> c[k]]] :
            c \in [1..n -> RefLists]} : n \in 1..MaxDocs}

RefInit ==
  /\ project = [template |-> TRUE, documents |-> TRUE, section_mapping |-> 1]
  /\ RunInit
  /\ \E docs \in RefDocumentLists :
       gen = [pc |-> "collect", documents |-> docs, allReferences |-> <<>>,
              persisted |-> <<>>]

RefNext ==
  \/ CollectReferences
  \/ \E ok \in BOOLEAN : UpdateDraftReferences(ok)

RefSpec == RefInit /\ [][RefNext]_vars

\* ---- progress channel -----------------------------------------------------
\* everything but sse and emitted
channelRest == <<project, status, generation_progress, draftCreated,
                 draft, references, results, events, streams, runPc, i, sec,
                 statusLog, faults, response, clientPc, runError, detached,
                 other, wizard, gen>>

\* variant: a new stream is first sent the events its project has emitted
GenerationStatusReplays(c, p) ==
  /\ sse[c].res = "none"
  /\ sse' = [sse EXCEPT ![c] =
       [OpenedStream(p) EXCEPT !.written =
          @ \o SelectSeq(emitted, LAMBDA e : e.projectId = p)]]
  /\ UNCHANGED <<emitted, channelRest>>

\* GET /:id/generation-status: headers, the initial 'status' message, the
\* four listeners, the ping timer
GenerationStatus(c, p) ==
  /\ sse[c].res = "none"
  /\ sse' = [sse EXCEPT ![c] = OpenedStream(p)]
  /\ UNCHANGED <<emitted, channelRest>>

\* variant: the handlers write every event they are called with
OnEventUnfiltered(stream, e) ==
  IF e.kind \notin stream.listeners
    THEN stream
    ELSE IF e.kind = "complete"
           THEN [stream EXCEPT !.written = Append(@, e), !.listeners = {},
                               !.res = "ended"]
           ELSE [stream EXCEPT !.written = Append(@, e)]

\* onProgress / onSectionComplete / onError / onComplete of one stream,
\* called by emit when the listener is attached: the event is written when
\* it is of the stream's project; after 'complete', cleanup() and res.end()
OnEvent(stream, e) ==
  IF e.kind \notin stream.listeners \/ e.projectId # stream.project
    THEN stream
    ELSE IF e.kind = "complete"
           THEN [stream EXCEPT !.written = Append(@, e), !.listeners = {},
                               !.res = "ended"]
           ELSE [stream EXCEPT !.written = Append(@, e)]

\* generationEvents.emit(kind, {projectId, ...}) of some run: the listeners
\* attached for the kind are called one after the other
Fanout(kind, p) ==
  LET e == [kind |-> kind, projectId |-> p, n |-> Len(emitted) + 1,
            to |-> {c \in StreamIds : kind \in sse[c].listeners}]
  IN /\ emitted' = Append(emitted, e)
     /\ sse' = [c \in StreamIds |-> OnEvent(sse[c], e)]

\* an emit call of some run, seen from the streams
ChannelEmit(kind, p) ==
  /\ Len(emitted) < MaxEmits
  /\ Fanout(kind, p)
  /\ UNCHANGED channelRest

\* variant: on disconnect only the ping timer is cleared
ClientCloseKeepsListeners(c) ==
  /\ sse[c].res \in {"open", "ended"}
  /\ sse' = [sse EXCEPT ![c] = [@ EXCEPT !.res = "closed", !.timer = FALSE]]
  /\ UNCHANGED <<emitted, channelRest>>

\* req 'close' (the client has gone, or the ended response is torn down):
\* cleanup() and clearInterval(pingInterval)
ClientClose(c) ==
  /\ sse[c].res \in {"open", "ended"}
  /\ sse' = [sse EXCEPT ![c] = [@ EXCEPT !.res = "closed", !.listeners = {},
                                         !.timer = FALSE]]
  /\ UNCHANGED <<emitted, channelRest>>

ChannelInit ==
  /\ project = [template |-> TRUE, documents |-> TRUE, section_mapping |-> 1]
  /\ gen = IdleGen
  /\ RunInit

ChannelNext ==
  \/ \E c \in StreamIds, p \in Projects : GenerationStatus(c, p)
  \/ \E kind \in EventKinds, p \in Projects : ChannelEmit(kind, p)
  \/ \E c \in StreamIds : ClientClose(c)

ChannelSpec == ChannelInit /\ [][ChannelNext]_vars

\* ---- a second run ---------------------------------------------------------
\* a second call of generateProjectContent, for a project of one section; a
\* run of P1 writes the project row of the first run, a run of P2 its own
otherRest == <<project, draftCreated, draft, references, results, events,
               runPc, i, sec, faults, response, clientPc, runError, detached,
               wizard, gen>>

\* updateProjectStatus of the second run, which goes on as o
OtherStore(o, st, progress) ==
  IF o.project = "P1"
    THEN /\ status' = st
         /\ generation_progress' = progress
         /\ statusLog' = Append(statusLog, st)
         /\ other' = o
    ELSE /\ other' = [o EXCEPT !.status = st]
         /\ UNCHANGED storeVars

\* POST /:id/generate once more: readiness check, then the detached call
OtherPostGenerate(p) ==
  /\ other.pc = "idle"
  /\ p = "P1" => checkGenerationReadiness
  /\ other' = [IdleRun EXCEPT !.pc = "statusInit", !.project = p]
  /\ UNCHANGED <<storeVars, sse, emitted, streams, otherRest>>

\* the first updateProjectStatus('generating') returns
OtherStatusInitDone ==
  /\ other.pc = "statusInit"
  /\ OtherStore([other EXCEPT !.pc = "createDraft"], "generating", Progress(1, 0))
  /\ UNCHANGED <<sse, emitted, streams, otherRest>>

\* createDraft returns; the section is started: 'progress', then the race
OtherCreateDraftDone ==
  /\ other.pc = "createDraft"
  /\ other' = [other EXCEPT !.pc = "racing"]
  /\ Fanout("progress", other.project)
  /\ UNCHANGED <<storeVars, streams, otherRest>>

\* the model call settles: on to the draft write, or into the catch block,
\* whose emit('error') throws when no 'error' listener is attached
OtherSettle(r) ==
  /\ other.pc = "racing"
  /\ IF r = "modelError"
       THEN /\ other' = [other EXCEPT
                 !.errors = Append(@, ModelErrorMessage),
                 !.pc = IF HasErrorListener THEN "placeholder" ELSE "finally",
                 !.rethrow = IF HasErrorListener THEN "" ELSE UnhandledErrorMessage]
            /\ Fanout("error", other.project)
       ELSE /\ other' = [other EXCEPT !.pc = "writing"]
            /\ UNCHANGED <<sse, emitted>>
  /\ UNCHANGED <<storeVars, streams, otherRest>>

\* updateDraftSection of the success path returns
OtherWriteDone ==
  /\ other.pc = "writing"
  /\ other' = [other EXCEPT !.pc = "finally", !.draft = ContentOf("ok"),
                            !.sections = @ + 1]
  /\ Fanout("section-complete", other.project)
  /\ UNCHANGED <<storeVars, streams, otherRest>>

\* updateDraftSection of the catch block returns
OtherPlaceholderDone ==
  /\ other.pc = "placeholder"
  /\ other' = [other EXCEPT !.pc = "finally",
                            !.draft = Placeholder(ModelErrorMessage)]
  /\ UNCHANGED <<storeVars, sse, emitted, streams, otherRest>>

\* updateProjectStatus of the finally block returns; Promise.all settles
OtherFinallyDone ==
  /\ other.pc = "finally"
  /\ OtherStore([other EXCEPT !.pc = IF other.rethrow # "" THEN "rollback"
                                                           ELSE "references"],
                "generating", Progress(1, other.sections))
  /\ UNCHANGED <<sse, emitted, streams, otherRest>>

\* collectReferences and updateDraftReferences return
OtherReferencesDone ==
  /\ other.pc = "references"
  /\ other' = [other EXCEPT !.pc = "ready"]
  /\ UNCHANGED <<storeVars, sse, emitted, streams, otherRest>>

\* updateProjectStatus('ready') returns, then 'complete'
OtherReadyDone ==
  /\ other.pc = "ready"
  /\ OtherStore([other EXCEPT !.pc = "returned"], "ready", Progress(1, 1))
  /\ Fanout("complete", other.project)
  /\ streams' = IF other.project = "P1" THEN AfterComplete ELSE streams
  /\ UNCHANGED otherRest

\* top-level catch: updateProjectStatus('draft') returns, then 'error' and
\* the rethrow
OtherRollbackDone ==
  /\ other.pc = "rollback"
  /\ OtherStore([other EXCEPT !.pc = "thrown"], "draft", FailedProgress(other.rethrow))
  /\ Fanout("error", other.project)
  /\ UNCHANGED <<streams, otherRest>>

\* the project of the first run has one section; a stream of P2 may be
\* attached already
TwoRunInit ==
  /\ project = [template |-> TRUE, documents |-> TRUE, section_mapping |-> 1]
  /\ gen = IdleGen
  /\ RunStart
  /\ sse \in {[c \in StreamIds |-> NoStream],
              [c \in StreamIds |-> IF c = 1 THEN OpenedStream("P2") ELSE NoStream]}

TwoRunNext ==
  \/ PostGenerate
  \/ \E ok \in BOOLEAN : StatusInitDone(ok)
  \/ \E ok \in BOOLEAN : CreateDraftDone(ok)
  \/ \E s \in Sections, r \in {"ok", "parseFail", "modelError"} : GenSettle(s, r)
  \/ \E s \in Sections : Timeout(s)
  \/ \E s \in Sections : AbandonedSettle(s)
  \/ \E s \in Sections, ok \in BOOLEAN : WriteDone(s, ok)
  \/ \E s \in Sections, ok \in BOOLEAN : PlaceholderDone(s, ok)
  \/ \E s \in Sections, ok \in BOOLEAN : FinallyDone(s, ok)
  \/ BatchDone
  \/ \E ok \in BOOLEAN : ReferencesDone(ok)
  \/ \E ok \in BOOLEAN : ReadyDone(ok)
  \/ \E ok \in BOOLEAN : RollbackDone(ok)
  \/ OpenStream
  \/ CloseStream
  \/ \E c \in StreamIds : ClientClose(c)
  \/ \E p \in Projects : OtherPostGenerate(p)
  \/ OtherStatusInitDone
  \/ OtherCreateDraftDone
  \/ \E r \in {"ok", "modelError"} : OtherSettle(r)
  \/ OtherWriteDone
  \/ OtherPlaceholderDone
  \/ OtherFinallyDone
  \/ OtherReferencesDone
  \/ OtherReadyDone
  \/ OtherRollbackDone

TwoRunSpec == TwoRunInit /\ [][TwoRunNext]_vars

\* ---- project-creation wizard ----------------------------------------------
STEPS == 5
PROJECT_MODES == {"single", "multi"}
PROJECT_PURPOSES == {"full_report", "summary", "literature_review", "comparative"}

\* the purposes marked multiOnly
multiOnly == {"literature_review", "comparative"}

\* the documents and the template loaded on mount, and the names typed
WizardDocuments == {DocId(k) : k \in 1..MaxDocs}
WizardTemplates == {"T1"}
ProjectNames == {" ", "Q4"}

\* projectName.trim()
Trim(name) == IF name = " " THEN "" ELSE name

\* everything but wizard
wizardRest == <<project, status, generation_progress, draftCreated,
                draft, references, results, events, streams, runPc, i, sec,
                statusLog, faults, response, clientPc, runError, detached,
                sse, emitted, other, gen>>

\* a button of step 1: setMode
setMode(m) ==
  /\ wizard.page = "wizard"
  /\ wizard.currentStep = 1
  /\ wizard' = [wizard EXCEPT !.mode = m]
  /\ UNCHANGED wizardRest

\* a button of step 2, where the multiOnly purposes are offered under mode
\* 'multi' only: setPurpose
setPurpose(p) ==
  /\ wizard.page = "wizard"
  /\ wizard.currentStep = 2
  /\ p \notin multiOnly \/ wizard.mode = "multi"
  /\ wizard' = [wizard EXCEPT !.purpose = p]
  /\ UNCHANGED wizardRest

\* a document of step 3
handleDocumentToggle(docId) ==
  /\ wizard.page = "wizard"
  /\ wizard.currentStep = 3
  /\ LET prev == wizard.selectedDocuments
     IN wizard' = [wizard EXCEPT !.selectedDocuments =
          IF \E k \in 1..Len(prev) : prev[k] = docId
            THEN SelectSeq(prev, LAMBDA id : id # docId)
            ELSE IF wizard.mode = "single" THEN <<docId>>
                                           ELSE Append(prev, docId)]
  /\ UNCHANGED wizardRest

\* a template of step 4: setSelectedTemplate, and the effect that resets
\* the section mapping to the structure of the template
setSelectedTemplate(t) ==
  /\ wizard.page = "wizard"
  /\ wizard.currentStep = 4
  /\ wizard' = [wizard EXCEPT !.selectedTemplate = t,
                              !.sectionMapping = <<"Introduction">>]
  /\ UNCHANGED wizardRest

\* the name field of step 5
setProjectName(name) ==
  /\ wizard.page = "wizard"
  /\ wizard.currentStep = 5
  /\ wizard' = [wizard EXCEPT !.projectName = name]
  /\ UNCHANGED wizardRest

\* what handleNext refuses with, "" when it lets the step pass
NextError(w) ==
  IF w.currentStep = 1 /\ w.mode = ""
    THEN "Please select a project mode"
  ELSE IF w.currentStep = 2 /\ w.purpose = ""
    THEN "Please select a project purpose"
  ELSE IF w.currentStep = 3 /\ Len(w.selectedDocuments) = 0
    THEN "Please select at least one document"
  ELSE IF w.currentStep = 3 /\ w.mode = "single" /\ Len(w.selectedDocuments) > 1
    THEN "Single document mode allows only one document"
  ELSE IF w.currentStep = 4 /\ w.selectedTemplate = ""
    THEN "Please select a template"
  ELSE ""

\* the Next button, shown before the last step
handleNext ==
  /\ wizard.page = "wizard"
  /\ wizard.currentStep < STEPS
  /\ wizard' = IF NextError(wizard) # ""
       THEN [wizard EXCEPT !.error = NextError(wizard)]
       ELSE [wizard EXCEPT !.error = "",
                           !.currentStep = IF @ + 1 < STEPS THEN @ + 1 ELSE STEPS]
  /\ UNCHANGED wizardRest

\* the Back button, shown after the first step
handleBack ==
  /\ wizard.page = "wizard"
  /\ wizard.currentStep > 1
  /\ wizard' = [wizard EXCEPT !.error = "",
                              !.currentStep = IF @ - 1 > 1 THEN @ - 1 ELSE 1]
  /\ UNCHANGED wizardRest

\* the Create Project button of the last step: the project data are sent
\* unless the name is blank; on success the wizard is left
handleCreate(ok) ==
  /\ wizard.page = "wizard"
  /\ wizard.currentStep = STEPS
  /\ wizard' = IF Trim(wizard.projectName) = ""
       THEN [wizard EXCEPT !.error = "Please enter a project name"]
       ELSE [wizard EXCEPT
               !.submitted = [name |-> Trim(wizard.projectName),
                              mode |-> wizard.mode,
                              purpose |-> wizard.purpose,
                              templateId |-> wizard.selectedTemplate,
                              sourceDocumentIds |-> wizard.selectedDocuments,
                              sectionMapping |-> wizard.sectionMapping],
               !.error = IF ok THEN "" ELSE "Failed to create project. Please try again.",
               !.page = IF ok THEN "project" ELSE "wizard"]
  /\ UNCHANGED wizardRest

WizardInit ==
  /\ project = [template |-> TRUE, documents |-> TRUE, section_mapping |-> 1]
  /\ gen = IdleGen
  /\ RunInit

WizardNext ==
  \/ \E m \in PROJECT_MODES : setMode(m)
  \/ \E p \in PROJECT_PURPOSES : setPurpose(p)
  \/ \E docId \in WizardDocuments : handleDocumentToggle(docId)
  \/ \E t \in WizardTemplates : setSelectedTemplate(t)
  \/ \E name \in ProjectNames : setProjectName(name)
  \/ handleNext
  \/ handleBack
  \/ \E ok \in BOOLEAN : handleCreate(ok)

WizardSpec == WizardInit /\ [][WizardNext]_vars

\* ---- vocabulary of the properties --------------------------------------

RunEnded == runPc \in {"returned", "thrown"}

\* the run has written a terminal status: 'ready', or the rollback to 'draft'
TerminalWritten == \E k \in 1..Len(statusLog) : statusLog[k] \in {"ready", "draft"}

\* number of the batch a section belongs to: consecutive groups of three
BatchNo(s) == (s - 1) \div 3

SameBatch(s, t) == BatchNo(s) = BatchNo(t)

Started(s) == sec[s].pc # "idle"

\* the model call of s was left running by the timeout
Abandoned(s) == sec[s].call = "inflight" /\ sec[s].pc \notin {"idle", "racing"}

InFlightCalls == {s \in Sections : sec[s].call = "inflight"}

HasEvent(s, kind) == \E k \in 1..Len(events[s]) : events[s][k].kind = kind

ModelThrew(s) ==
  \E k \in 1..Len(events[s]) :
    events[s][k].kind = "error" /\ events[s][k].error = ModelErrorMessage

\* the only exceptions raised are those of the sections themselves: model
\* errors, timeouts and failed draft writes of the success path
OnlySectionFailures == \A f \in faults : f.op = "updateDraftSection"

\* ---- C1 -----------------------------------------------------------------
\* C1: whatever sections raise an exception (model error, timeout, failed
\* draft write on the success path), when the run is over every section of
\* the mapping has been processed and the project status is 'ready'.
C1_SectionFailureNeverAborts ==
  (RunEnded /\ OnlySectionFailures) =>
     /\ status = "ready"
     /\ \A s \in 1..L : sec[s].pc = "done"

\* ---- C2 -----------------------------------------------------------------
\* C2: when only model calls throw, the run ends with status 'ready', every
\* section whose model call threw holds the placeholder and has exactly one
\* entry in the error list, and every section whose call succeeded holds its
\* generated content.
C2_ModelErrorsLeavePlaceholders ==
  (RunEnded /\ faults = {}) =>
     /\ status = "ready"
     /\ \A s \in 1..L :
          /\ ModelThrew(s) =>
               /\ draft[s] = Placeholder(ModelErrorMessage)
               /\ results.errors[s] = <<ModelErrorMessage>>
          /\ results.sections[s] = <<TRUE>> => draft[s] = "generated"

\* ---- C3 -----------------------------------------------------------------
\* C3: when an exception has escaped the run (the caller sees a rejection),
\* the status is 'draft' with the error message attached and an 'error' event
\* with recoverable: false has been emitted.
C3_EscapedExceptionRollsBack ==
  runPc = "thrown" =>
     /\ status = "draft"
     /\ generation_progress.kind = "failed"
     /\ generation_progress.error = runError
     /\ \E k \in 1..Len(events[0]) :
          events[0][k].kind = "error" /\ ~events[0][k].recoverable

\* ---- C4 -----------------------------------------------------------------
\* C4: the statuses written by the run start with 'generating' and every
\* later write follows a 'generating' write: nothing is written after 'ready'
\* or after the rollback to 'draft'.
C4_StatusOrder ==
  \A k \in 1..Len(statusLog) :
     /\ k = 1 => statusLog[k] = "generating"
     /\ k > 1 => statusLog[k - 1] = "generating"

\* ---- C5 -----------------------------------------------------------------
\* C5: once the run has written a terminal status, no step changes a
\* DraftSection.
C5_NoWriteAfterTerminal == [][TerminalWritten => draft' = draft]_vars

\* ---- C6 -----------------------------------------------------------------
\* C6: sections are started in consecutive groups of three in mapping order:
\* the sections of one group start together, a section is started only when
\* every section of every earlier group has finished, and a run that gets
\* past the loop has gone through ceil(L/3) batches.
C6_BatchOrder ==
  /\ \A s, t \in 1..L :
       /\ (SameBatch(s, t) /\ Started(s)) => Started(t)
       /\ (BatchNo(t) < BatchNo(s) /\ Started(s)) => sec[t].pc = "done"
  /\ runPc \in {"references", "ready", "returned"} =>
       (i - 1) \div 3 = (L + 2) \div 3

\* a later batch is running while an earlier one holds a failed section
C6_Witness ==
  /\ L >= 4
  /\ sec[4].pc = "racing"
  /\ \E s \in 1..3 : results.errors[s] # <<>>

\* ---- C7 -----------------------------------------------------------------
\* C7: at most three model calls of the run are in flight at any moment.
C7_AtMostThreeCallsInFlight == Cardinality(InFlightCalls) <= 3

\* ---- C8 -----------------------------------------------------------------
\* C8: a section that got past the race while its model call is still
\* unresolved has failed with "Generation timed out" (one error entry, no
\* entry in results.sections); and while a call of a batch is unresolved, the
\* draft write of any other section of the batch can complete.
C8_TimeoutDoesNotBlock ==
  /\ \A s \in 1..L : Abandoned(s) =>
       /\ results.errors[s] = <<"Generation timed out">>
       /\ results.sections[s] = <<>>
       /\ HasEvent(s, "error")
  /\ \A s, t \in 1..L :
       (s # t /\ SameBatch(s, t) /\ sec[s].call = "inflight" /\ sec[t].pc = "writing")
         => ENABLED WriteDone(t, TRUE)

\* a call is still unresolved after its timeout while another section of the
\* batch has written its draft section and emitted its completion event
C8_Witness ==
  \E s, t \in 1..L :
    /\ s # t /\ SameBatch(s, t)
    /\ Abandoned(s)
    /\ results.errors[s] = <<TimeoutMessage>>
    /\ draft[t] = "generated"
    /\ HasEvent(t, "section-complete")

\* ---- C9 -----------------------------------------------------------------
\* C9: the timeout leaves the model call in flight; when the abandoned call
\* settles, the draft, the emitted events and the run's section and error
\* lists are unchanged; and a placeholder written for a timed-out section is
\* never replaced.
C9_AbandonedResultIgnored ==
  [][\A s \in Sections :
       /\ (sec[s].pc = "racing" /\ sec'[s].pc # "racing"
            /\ results'.errors[s] = <<TimeoutMessage>>) => sec'[s].call = "inflight"
       /\ (Abandoned(s) /\ sec'[s].call = "settled") =>
            (draft' = draft /\ events' = events /\ results' = results
               /\ status' = status)
       /\ draft[s] = Placeholder(TimeoutMessage) => draft'[s] = draft[s]]_vars

\* the abandoned call of a timed-out section has settled and the placeholder
\* of the section is in the draft
C9_Witness ==
  \E s \in 1..L :
    /\ results.errors[s] = <<TimeoutMessage>>
    /\ sec[s].call = "settled"
    /\ draft[s] = Placeholder(TimeoutMessage)

\* ---- C10 ----------------------------------------------------------------
\* C10: when the trigger has been refused by the readiness check, status and
\* progress are as before, no draft exists, nothing was emitted and no run
\* was started.
C10_RefusedTriggerMutatesNothing ==
  response = "badRequest" =>
     /\ status = "draft"
     /\ generation_progress = NullProgress
     /\ ~draftCreated
     /\ \A s \in 0..MaxSections : events[s] = <<>>
     /\ runPc = "idle"

\* C11: the trigger has answered "generating" as soon as the run exists (the
\* run is then still at its first store call), and a rejection of the run,
\* also one raised inside its own top-level catch, ends in the catch handler
\* of the trigger: it is logged, never unhandled, and the answer stays.
C11_BackgroundFailureSwallowed ==
  /\ runPc # "idle" => response = "generating"
  /\ detached # "unhandled"
  /\ (runPc = "thrown") <=> (detached = "logged")

\* the store call of the top-level catch threw, after the answer was sent
C11_Witness ==
  /\ Fault("rollback", 0) \in faults
  /\ runPc = "thrown"
  /\ detached = "logged"
  /\ response = "generating"

\* ---- C12 ----------------------------------------------------------------
\* number of events of a kind emitted about section s
CountEvents(s, kind) ==
  Cardinality({k \in 1..Len(events[s]) : events[s][k].kind = kind})

RECURSIVE TotalEvents(_, _)
TotalEvents(n, kind) ==
  IF n = 0 THEN 0 ELSE CountEvents(n, kind) + TotalEvents(n - 1, kind)

\* C12: a run that ends 'ready' with an empty error list (no section raised
\* an exception) has emitted at least L 'progress' events, at least one per
\* section, and exactly L 'section-complete' events, exactly one for each
\* section of the mapping and none for any other id.
C12_EventsOfSuccessfulRun ==
  (runPc = "returned" /\ ErrorsLength = 0) =>
     /\ TotalEvents(MaxSections, "progress") >= L
     /\ TotalEvents(MaxSections, "section-complete") = L
     /\ \A s \in Sections :
          /\ CountEvents(s, "progress") >= (IF s <= L THEN 1 ELSE 0)
          /\ CountEvents(s, "section-complete") = (IF s <= L THEN 1 ELSE 0)

\* a run ends without an error; one of its sections had too little source
\* text and one a response that could not be parsed
C12_Witness ==
  /\ runPc = "returned"
  /\ ErrorsLength = 0
  /\ \E s, t \in 1..L :
       /\ draft[s] = ContentOf("insufficient")
       /\ draft[t] = ContentOf("parseFail")

\* ---- C13 ----------------------------------------------------------------
\* the 'complete' events emitted
CompleteEvents ==
  {events[0][k] : k \in {j \in 1..Len(events[0]) : events[0][j].kind = "complete"}}

\* C13 as stated: the count carried by the 'complete' event equals L,
\* whatever number of sections failed.
C13_CompleteEventCountsL ==
  \A e \in CompleteEvents : e.sectionsGenerated = L

\* C13, amended: when the run ends 'ready' the persisted progress says
\* completedSections = totalSections = L whatever number of sections failed;
\* the one 'complete' event carries sectionsGenerated, which is L minus the
\* number of entries of the error list.
C13_ReadyProgressCountsL ==
  runPc = "returned" =>
     /\ generation_progress = Progress(L, L)
     /\ Cardinality(CompleteEvents) = 1
     /\ \A e \in CompleteEvents : e.sectionsGenerated = L - ErrorsLength

\* a run ends 'ready' although a section raised an exception
C13_Witness ==
  /\ runPc = "returned"
  /\ ErrorsLength > 0
  /\ generation_progress.completedSections = L

\* ---- C14 ----------------------------------------------------------------
\* section s has finished with a result of success: false or in its catch block
FailedRecoverably(s) ==
  /\ sec[s].pc = "done"
  /\ results.sections[s] = <<FALSE>> \/ results.errors[s] # <<>>

\* C14: every section that finished with insufficient content, a parse
\* failure, a model error or a timeout holds placeholder content, has an
\* 'error' event with recoverable: true, and the run it belongs to ends
\* 'ready' when no store operation fails.
C14_RecoverableFailuresAreErrorEvents ==
  /\ \A s \in 1..L : FailedRecoverably(s) =>
       /\ draft[s] # ""
       /\ \E k \in 1..Len(events[s]) :
            events[s][k].kind = "error" /\ events[s][k].recoverable
  /\ (RunEnded /\ faults = {}) => status = "ready"

\* ---- C15 ----------------------------------------------------------------
\* the generator followed has left its first stretch
GenStarted == gen.pc \notin {"idle", "start"}

\* the source texts the section draws on: of the first document in single
\* mode, of every selected document in multi mode
SourceTexts ==
  LET keys == gen.sourceMapping.sourceSections
      used == IF gen.mode = "single"
                THEN <<gen.documents[1]>>
                ELSE docsToUse(gen.documents, gen.sourceMapping.sourceDocuments)
  IN [k \in 1..Len(used) |-> extractSourceContent(used[k], keys)]

\* C15: on both paths, when every source text of the section is shorter than
\* 50 characters the generator returns success: false and the model has not
\* been called.
C15_ShortSourceNeverCallsModel ==
  (GenStarted /\ \A k \in 1..Len(SourceTexts) :
                   SourceTexts[k].len < MinSourceChars) =>
     /\ gen.pc = "returned"
     /\ gen.modelCalls = 0
     /\ ~gen.result.success

\* a multi-document section over three documents that all have some text,
\* the longest of 49 characters
C15_Witness ==
  /\ gen.pc = "returned"
  /\ gen.mode = "multi"
  /\ Len(SourceTexts) = 3
  /\ \A k \in 1..3 : SourceTexts[k].len \in 1..(MinSourceChars - 1)
  /\ \E k \in 1..3 : SourceTexts[k].len = MinSourceChars - 1
  /\ gen.modelCalls = 0
  /\ ~gen.result.success

\* ---- C16 ----------------------------------------------------------------
\* C16: in multi mode every selected document whose source text has at least
\* 50 characters is an entry of the document list of the prompt.
C16_EveryContributingDocumentInPrompt ==
  (GenStarted /\ gen.mode = "multi") =>
     \A k \in 1..Len(gen.docsToUse) :
        SourceTexts[k].len >= MinSourceChars =>
          \E j \in 1..Len(gen.prompt.documents) :
             gen.prompt.documents[j].title = gen.docsToUse[k].id

\* ---- C17 ----------------------------------------------------------------
\* C17: on both paths, when the model has been called every source content
\* of the prompt has at most 100,000 characters.
C17_PromptContentTruncated ==
  (GenStarted /\ gen.modelCalls > 0) =>
     \A j \in 1..Len(gen.prompt.documents) :
        gen.prompt.documents[j].content.len <= MaxContextChars

\* ---- C18 ----------------------------------------------------------------
\* ids of a list of documents, in order
Ids(docs) == [k \in 1..Len(docs) |-> docs[k].id]

\* t is s without some of its elements, the others in the same order
RECURSIVE IsSubSeq(_, _)
IsSubSeq(t, s) ==
  IF t = <<>> THEN TRUE
  ELSE IF s = <<>> THEN FALSE
  ELSE IF Head(t) = Head(s) THEN IsSubSeq(Tail(t), Tail(s))
  ELSE IsSubSeq(t, Tail(s))

\* C18: in multi mode the documents used are all project documents when the
\* list holds "all", alone or next to ids; otherwise they are the project
\* documents whose id is listed, each once and in project order, and an id
\* of no document changes nothing and raises nothing.
C18_DocumentSelection ==
  (GenStarted /\ gen.mode = "multi") =>
     LET listed == gen.sourceMapping.sourceDocuments
         used == gen.docsToUse
     IN /\ "all" \in listed => used = gen.documents
        /\ "all" \notin listed =>
             /\ IsSubSeq(Ids(used), Ids(gen.documents))
             /\ \A k \in 1..Len(gen.documents) :
                  (gen.documents[k].id \in listed) <=>
                     (\E j \in 1..Len(used) : used[j] = gen.documents[k])
        /\ gen.pc = "threw" => gen.modelCalls > 0

\* the first and the third of three documents are listed next to an id of
\* no document
C18_Witness ==
  /\ GenStarted
  /\ gen.mode = "multi"
  /\ gen.sourceMapping.sourceDocuments = {DocId(1), DocId(3), "unknown"}
  /\ Len(gen.documents) = 3
  /\ Ids(gen.docsToUse) = <<DocId(1), DocId(3)>>

\* ---- C19 ----------------------------------------------------------------
\* sections whose try or catch block is over
Finished(f) == {t \in Sections : f[t].pc \in {"finally", "done", "rejected"}}

\* sections that have an entry in results.sections
Generated(r) == {t \in Sections : r.sections[t] # <<>>}

\* the progress update of section s is issued in this step
IssuesProgress(s) == sec[s].pc # "finally" /\ sec'[s].pc = "finally"

\* the progress update of section s is persisted in this step
PersistsProgress(s) ==
  /\ sec[s].pc = "finally"
  /\ sec'[s].pc # "finally"
  /\ faults' = faults

\* C19 as stated: the progress update made when a section finishes carries,
\* and stores, the number of sections finished so far, failed ones included.
C19_ProgressCountsFinished ==
  [][\A s \in Sections :
       /\ IssuesProgress(s) =>
            sec'[s].completedArg = Cardinality(Finished(sec'))
       /\ PersistsProgress(s) =>
            generation_progress' = Progress(L, sec[s].completedArg)]_vars

\* C19, amended: when a section finishes, with a result or in its catch
\* block, a progress update is issued that carries the number of sections
\* that have finished without raising an exception so far (the length of
\* results.sections); that number is what the update stores when it succeeds.
C19_ProgressCountsGenerated ==
  [][\A s \in Sections :
       /\ (sec[s].pc \in {"racing", "writing", "placeholder"}
             /\ sec'[s].pc \notin {"racing", "writing", "placeholder"})
            => IssuesProgress(s)
       /\ IssuesProgress(s) =>
            sec'[s].completedArg = Cardinality(Generated(results'))
       /\ PersistsProgress(s) =>
            generation_progress' = Progress(L, sec[s].completedArg)]_vars

\* the progress update of a section that raised an exception has been
\* stored, and the stored count is below the number of finished sections
C19_Witness ==
  /\ status = "generating"
  /\ generation_progress.kind = "counters"
  /\ \E s \in 1..L : sec[s].pc = "done" /\ results.errors[s] # <<>>
  /\ \A t \in 1..L : sec[t].pc \in {"idle", "done"}
  /\ generation_progress.completedSections < Cardinality(Finished(sec))

\* ---- C20 ----------------------------------------------------------------
\* C20: in every state the persisted progress has completedSections <=
\* totalSections, every progress update under way carries at most L, and
\* every 'progress' event emitted carries at most L, the totalSections it
\* is sent with.
C20_CompletedAtMostTotal ==
  /\ generation_progress.completedSections <= generation_progress.totalSections
  /\ \A s \in Sections :
       /\ sec[s].pc = "finally" => sec[s].completedArg <= L
       /\ \A k \in 1..Len(events[s]) :
            events[s][k].kind = "progress" => events[s][k].completedSections <= L

\* the last progress update of a run of several sections is stored: the two
\* counters are equal and the run is still 'generating'
C20_Witness ==
  /\ L >= 2
  /\ status = "generating"
  /\ generation_progress = Progress(L, L)
  /\ \E k \in 1..Len(events[L]) : events[L][k].kind = "progress"

\* ---- C21 ----------------------------------------------------------------
\* C21: whenever a 'complete' event has been emitted, every section of the
\* mapping has finished, the aggregated references are on the draft and the
\* status is 'ready'; the event carries the draft id, the number of sections
\* generated and the error list, and there is one such event at most.
C21_CompleteIsLast ==
  \A e \in CompleteEvents :
     /\ \A s \in 1..L : sec[s].pc = "done"
     /\ references
     /\ status = "ready"
     /\ e.draftId = "D1"
     /\ e.sectionsGenerated = Cardinality(Generated(results))
     /\ e.errors = results.errors
     /\ CountEvents(0, "complete") <= 1

\* ---- C22 ----------------------------------------------------------------
\* the references that reached the draft
PersistedRefs == gen.persisted[1]

\* number of references of the documents before the d-th
RECURSIVE RefsBefore(_)
RefsBefore(d) ==
  IF d <= 1 THEN 0
  ELSE RefsBefore(d - 1) + Len(gen.documents[d - 1].references)

\* two entries cite the same work
SameWork(a, b) == a.title = b.title /\ a.authors = b.authors /\ a.doi = b.doi

\* C22: the persisted references are one list holding the references of the
\* documents in document order, then reference order; no work is listed
\* twice; the indices are 1..n without gaps and every id is ref_<index>.
C22_ReferencesFlatAndDeduplicated ==
  (gen.pc = "updated" /\ gen.persisted # <<>>) =>
     /\ \A k \in 1..Len(PersistedRefs) :
          /\ PersistedRefs[k].index = k
          /\ PersistedRefs[k].id = "ref_" \o ToString(k)
     /\ Len(PersistedRefs) = RefsBefore(Len(gen.documents) + 1)
     /\ \A d \in 1..Len(gen.documents) :
          \A q \in 1..Len(gen.documents[d].references) :
             LET e == PersistedRefs[RefsBefore(d) + q]
             IN /\ e.sourceDocumentId = gen.documents[d].id
                /\ e.sourceRefId = gen.documents[d].references[q].id
     /\ \A j, k \in 1..Len(PersistedRefs) :
          j # k => ~SameWork(PersistedRefs[j], PersistedRefs[k])

\* ---- C23 ----------------------------------------------------------------
\* C23: the entry of a section in the draft is written once: by the one
\* draft write its section has in flight (that of the success path or that
\* of the catch block, never both at a time), into an entry that was empty;
\* and when the status becomes 'ready' every section of the mapping has its
\* entry.
C23_OneWritePerSection ==
  [][/\ \A s \in Sections :
          draft'[s] # draft[s] =>
             /\ draft[s] = ""
             /\ sec[s].pc \in {"writing", "placeholder"}
             /\ sec'[s].pc = "finally"
     /\ status' = "ready" => \A s \in 1..L : draft'[s] # ""]_vars

\* a run of several sections is 'ready'; the first draft write of one
\* section had thrown and its entry is the placeholder, another section has
\* its generated content
C23_Witness ==
  /\ status = "ready"
  /\ \E s, t \in 1..L :
       /\ Fault("updateDraftSection", s) \in faults
       /\ draft[s] = Placeholder(StoreErrorMessage)
       /\ draft[t] = ContentOf("ok")

\* ---- C26 ----------------------------------------------------------------
\* number of times event e was written to stream c
Written(c, e) ==
  Cardinality({j \in 1..Len(sse[c].written) : sse[c].written[j] = e})

\* C26: an event emitted while a stream had its listener for the kind
\* attached has been written to that stream if and only if the event's
\* projectId is the stream's project; nothing of another project is ever in
\* what a stream wrote.
C26_StreamForwardsOwnProject ==
  \A c \in StreamIds :
     /\ \A k \in 1..Len(emitted) :
          c \in emitted[k].to =>
             (Written(c, emitted[k]) > 0 <=>
                emitted[k].projectId = sse[c].project)
     /\ \A j \in 1..Len(sse[c].written) :
          sse[c].written[j].projectId = sse[c].project

\* two streams of different projects were attached while events of both
\* projects were emitted; each has written its own
C26_Witness ==
  \E c, d \in StreamIds :
     /\ sse[c].project = "P1" /\ sse[d].project = "P2"
     /\ \E j, k \in 1..Len(emitted) :
          /\ emitted[j].projectId = "P1" /\ emitted[k].projectId = "P2"
          /\ emitted[j].to = {c, d} /\ emitted[k].to = {c, d}
          /\ Written(c, emitted[j]) = 1 /\ Written(d, emitted[k]) = 1
          /\ Written(c, emitted[k]) = 0 /\ Written(d, emitted[j]) = 0

\* ---- C27 ----------------------------------------------------------------
\* stream c has written the 'complete' event of its project
ForwardedComplete(c) ==
  \E j \in 1..Len(sse[c].written) : sse[c].written[j].kind = "complete"

\* C27: a stream that has forwarded 'complete' has ended its response; a
\* stream whose client has gone has no ping timer; in both cases none of its
\* four listeners is attached (they are attached and detached together),
\* and once they are detached nothing more is written to the stream.
C27_StreamCleanup ==
  [][\A c \in StreamIds :
       /\ ForwardedComplete(c)' =>
            sse'[c].res \in {"ended", "closed"} /\ sse'[c].listeners = {}
       /\ sse'[c].res = "closed" =>
            sse'[c].listeners = {} /\ ~sse'[c].timer
       /\ sse'[c].listeners \in {{}, EventKinds}
       /\ (sse[c].res # "none" /\ sse[c].listeners = {}) =>
            sse'[c].written = sse[c].written]_vars

\* one stream has ended itself after 'complete', the client of another of
\* the same project has gone, and an event of the project emitted later
\* reached neither
C27_Witness ==
  \E c, d \in StreamIds :
     /\ sse[c].res = "ended" /\ ForwardedComplete(c)
     /\ sse[d].res = "closed" /\ sse[d].project = sse[c].project
     /\ \E k \in 1..Len(emitted) :
          /\ emitted[k].projectId = sse[c].project
          /\ emitted[k].to = {}
          /\ Written(c, emitted[k]) = 0 /\ Written(d, emitted[k]) = 0

\* ---- C28 ----------------------------------------------------------------
\* C28: an event emitted while a stream was not attached is never in what
\* the stream wrote, however long ago the stream attached since; an event
\* of the stream's project emitted while it was attached is there exactly
\* once.
C28_NoReplay ==
  \A c \in StreamIds : \A k \in 1..Len(emitted) :
     Written(c, emitted[k]) =
        (IF c \in emitted[k].to /\ emitted[k].projectId = sse[c].project
           THEN 1 ELSE 0)

\* a stream attached after an event of its project was emitted and has since
\* written a later event, but not the earlier one
C28_Witness ==
  \E c \in StreamIds : \E j, k \in 1..Len(emitted) :
     /\ j < k
     /\ emitted[j].projectId = sse[c].project
     /\ emitted[k].projectId = sse[c].project
     /\ c \notin emitted[j].to /\ c \in emitted[k].to
     /\ Written(c, emitted[j]) = 0 /\ Written(c, emitted[k]) = 1

\* ---- C24 ----------------------------------------------------------------
\* a call of generateProjectContent has been made and has not settled
InProgress(pc) == pc \notin {"idle", "returned", "thrown"}

\* C24: while a run of project P1 is in progress, no second run of P1 is in
\* progress.
C24_OneRunPerProject ==
  ~(InProgress(runPc) /\ other.project = "P1" /\ InProgress(other.pc))

\* ---- C25 ----------------------------------------------------------------
\* a stream of the other project whose client has not gone
OtherProjectListens ==
  \E c \in StreamIds : sse[c].project = "P2" /\ sse[c].res \in {"open", "ended"}

\* C25: with a stream of P2 whose client stays connected and no store
\* operation failing, the run of P1 ends with status 'ready', whether no
\* second run takes place or a run of P2 does (alone, the run of P1 ends
\* 'ready' in these conditions).
C25_RunsIndependent ==
  (/\ RunEnded
   /\ faults = {}
   /\ other.project # "P1"
   /\ OtherProjectListens)
     => status = "ready"

\* ---- C29 ----------------------------------------------------------------
\* C29: when no store operation fails, the run ends with status 'ready', an
\* entry in the draft for every section and no exception, whatever streams
\* were attached while it ran, none included: a section failure met with
\* no listener attached is contained like any other.
C29_SubscribersDoNotMatter ==
  (RunEnded /\ faults = {}) =>
     /\ status = "ready"
     /\ runError = ""
     /\ \A s \in 1..L : draft[s] # ""

\* ---- C30 ----------------------------------------------------------------
\* the run has settled and none of its sections has a store call pending
Quiescent ==
  /\ RunEnded
  /\ \A s \in Sections : sec[s].pc \in {"idle", "done", "rejected"}

\* C30: once a started run has settled and every store call it issued has
\* returned, the persisted status is 'ready' or 'draft', not 'generating'.
C30_NeverLeftGenerating == Quiescent => status \in {"ready", "draft"}

\* ---- C31 ----------------------------------------------------------------
\* C31: in every 'complete' event sectionsGenerated plus the number of
\* entries of errors is the length of the section mapping, and every
\* section of the mapping is either among the results or in the error list,
\* never in both.
C31_CompleteCountsPartition ==
  \A e \in CompleteEvents :
     /\ e.sectionsGenerated + SumLen(e.errors, MaxSections) = L
     /\ \A s \in 1..L : Len(results.sections[s]) + Len(e.errors[s]) = 1
     /\ \A s \in Sections \ (1..L) :
          results.sections[s] = <<>> /\ e.errors[s] = <<>>

\* a 'complete' event of a run in which one section was generated and
\* another raised an exception
C31_Witness ==
  \E e \in CompleteEvents : \E s, t \in 1..L :
     /\ results.sections[s] # <<>>
     /\ e.errors[t] # <<>>
     /\ e.sectionsGenerated < L

\* ---- C32 ----------------------------------------------------------------
\* the documents whose source text the section generator has extracted
ExtractedFrom ==
  IF gen.mode = "single" THEN <<gen.documents[1]>> ELSE gen.docsToUse

\* the configured keys that are sections of the document, in configured order
KeysPresent(document) ==
  SelectSeq(gen.sourceMapping.sourceSections,
            LAMBDA key : key \in DOMAIN document.extracted_content.sections)

\* the configured keys whose section of the document has text
KeysWithText(document) ==
  SelectSeq(KeysPresent(document),
            LAMBDA key : document.extracted_content.sections[key].len > 0)

\* the texts of the keys, in the order of the keys, joined by a blank line
JoinedTexts(document, keys) ==
  Join([k \in 1..Len(keys) |-> document.extracted_content.sections[keys[k]]])

C33_StreamsEndWithRun ==
  [][Len(events'[0]) > Len(events[0]) => streams' = 0]_vars

\* ---- C34 ----------------------------------------------------------------
\* C34: the project data the wizard has sent never combine mode 'single'
\* with one of the purposes marked multiOnly.
C34_MultiOnlyPurposeUnderMulti ==
  wizard.submitted # NoProjectData =>
     (wizard.submitted.purpose \in multiOnly => wizard.submitted.mode = "multi")

====
